---- MODULE Spec2Model ----
(***************************************************************************)
(* combine_csv.py: the yearly CSV files <year>.csv of one directory are    *)
(* read for year = 1992 .. 2026, tagged with their year, concatenated and  *)
(* written to the table all_cars of a SQLite file.                         *)
(*                                                                         *)
(* The script is straight-line code; pc is its position, one action per    *)
(* statement (one per loop iteration and branch).  The directory and the   *)
(* durable content of the database file are part of the state.  Values of  *)
(* pandas/sqlite3 are modelled by what the calls do to them: a data frame   *)
(* is a column list and a sequence of rows keyed by column name, a CSV file *)
(* is a header and positional lines.                                       *)
(***************************************************************************)
EXTENDS Integers, Sequences, FiniteSets, TLC

\* ------------------------------------------------------------------ bounds
\* Most lines a sample CSV file holds.
MaxRows == 2
\* How many times in a row the script is run on the same directory and store.
MaxRuns == 2

\* ------------------------------------------------------- program constants
\* range(1992, 2027): first year, and the exclusive stop.
FirstYear == 1992
StopYear == 2027

\* pd.concat fills the cells of columns a frame lacks with NaN (NULL in SQLite).
Null == 0 - 1

\* The columns of CREATE TABLE IF NOT EXISTS all_cars.
DeclaredCols == <<"year", "make", "model", "body_styles">>

\* ------------------------------------------------------------ sample input
\* Years for which the directory may hold a file: both ends of the range, a
\* year inside it and the years just outside it.
CandidateYears == {1991, 1992, 2020, 2026, 2027}

Seeds == {1, 2}

HPlain == <<"make", "model", "body_styles">>
HYear == <<"year", "make", "model", "body_styles">>
HExtra == <<"make", "model", "body_styles", "trim">>
HShort == <<"make", "model">>

\* The cell of column c in the sample line s.  A year cell of a file is stale:
\* it never is the year of the file's name.
Cell(c, s) ==
  CASE c = "year" -> 1999
    [] c = "make" -> 100 + s
    [] c = "model" -> 200 + s
    [] c = "body_styles" -> 300 + s
    [] OTHER -> 400 + s

Line(h, s) == [i \in 1 .. Len(h) |-> Cell(h[i], s)]

MkFile(h, ss) == [header |-> h, lines |-> [k \in 1 .. Len(ss) |-> Line(h, ss[k])]]

\* A file of zero bytes, and a file whose second line has a field too many.
EmptyFile == [header |-> <<>>, lines |-> <<>>]
RaggedFile == [header |-> HPlain, lines |-> <<Line(HPlain, 1), Line(HExtra, 2)>>]

PlainFiles == UNION { { MkFile(HPlain, ss) : ss \in [1 .. n -> Seeds] } : n \in 0 .. MaxRows }

SampleFiles ==
  PlainFiles \cup
  { MkFile(HYear, <<1>>), MkFile(HExtra, <<2>>), MkFile(HShort, <<1>>), EmptyFile, RaggedFile }

\* The files at the ends of the range vary freely; 2020.csv, when there, holds
\* a year column of 1999; a file outside the range holds one line.
FilesFor(y) ==
  IF y \in {1992, 2026} THEN SampleFiles
  ELSE IF y = 2020 THEN { MkFile(HYear, <<1>>) }
  ELSE { MkFile(HYear, <<2>>) }

NoTable == [exists |-> FALSE, cols |-> <<>>, rows |-> <<>>]

\* What cars.db holds before the first run: no table, a table of another
\* schema, or a table of the declared schema with a row of an earlier load.
OldStores ==
  { NoTable,
    [exists |-> TRUE, cols |-> <<"id", "name">>,
     rows |-> << [c \in {"id", "name"} |-> 900] >>],
    [exists |-> TRUE, cols |-> DeclaredCols,
     rows |-> << [c \in {"year", "make", "model", "body_styles"} |->
                    IF c = "year" THEN 1980 ELSE 901] >>] }

\* ------------------------------------------------------------------- state
VARIABLES
  files,          \* the directory csv_folder: year of the file name |-> file
  db,             \* durable content of the table all_cars in output_db
  pc,             \* position in the script
  year,           \* the loop variable
  all_cars_data,  \* list of data frames
  all_cars,       \* the combined frame
  conn,           \* "none", "open", "closed"
  view,           \* the table as the open connection sees it
  out,            \* console: <<"skip", year>> and <<"done", 0>>
  err,            \* the exception that ended the run, "" if none
  probed,         \* history: the years os.path.exists was asked about
  events,         \* history: the store operations of this run, in order
  db0,            \* history: db when this run started
  prev,           \* history: how the run before this one ended
  run             \* number of this run

vars == <<files, db, pc, year, all_cars_data, all_cars, conn, view, out, err,
          probed, events, db0, prev, run>>

Range(s) == { s[i] : i \in 1 .. Len(s) }

Index(s, x) == CHOOSE i \in 1 .. Len(s) : s[i] = x

EmptyFrame == [cols |-> <<>>, rows |-> <<>>]

\* ------------------------------------------------------------ pandas calls
\* os.path.exists(file_path)
Exists(y) == y \in DOMAIN files

\* pd.read_csv raises EmptyDataError on a file without a header line and
\* ParserError on a line after the first with more fields than the header.
ParseFails(f) ==
  \/ Len(f.header) = 0
  \/ \E i \in 2 .. Len(f.lines) : Len(f.lines[i]) > Len(f.header)

\* pd.read_csv: the header names the columns, each line becomes a row.
ReadCsv(f) ==
  [cols |-> f.header,
   rows |-> [i \in 1 .. Len(f.lines) |->
               [c \in Range(f.header) |-> f.lines[i][Index(f.header, c)]]]]

\* A plausible slip: the year is filled in only where the column is missing.
SetYearIfMissing(df, y) ==
  IF "year" \in Range(df.cols) THEN df
  ELSE [cols |-> Append(df.cols, "year"),
        rows |-> [i \in 1 .. Len(df.rows) |->
                    [c \in Range(df.cols) \cup {"year"} |->
                       IF c = "year" THEN y ELSE df.rows[i][c]]]]

\* df['year'] = year: an existing column is overwritten in place, a missing
\* one is added as the last column.
SetYear(df, y) ==
  [cols |-> IF "year" \in Range(df.cols) THEN df.cols ELSE Append(df.cols, "year"),
   rows |-> [i \in 1 .. Len(df.rows) |->
               [c \in Range(df.cols) \cup {"year"} |->
                  IF c = "year" THEN y ELSE df.rows[i][c]]]]

\* Columns of the frames in order of first appearance.
RECURSIVE UnionCols(_)
UnionCols(dfs) ==
  IF dfs = <<>> THEN <<>>
  ELSE LET before == UnionCols(SubSeq(dfs, 1, Len(dfs) - 1))
           last == dfs[Len(dfs)].cols
       IN before \o SelectSeq(last, LAMBDA c : c \notin Range(before))

Reindex(row, cols) ==
  [c \in Range(cols) |-> IF c \in DOMAIN row THEN row[c] ELSE Null]

RECURSIVE StackRows(_, _)
StackRows(dfs, cols) ==
  IF dfs = <<>> THEN <<>>
  ELSE LET df == dfs[Len(dfs)]
       IN StackRows(SubSeq(dfs, 1, Len(dfs) - 1), cols) \o
          [i \in 1 .. Len(df.rows) |-> Reindex(df.rows[i], cols)]

\* A plausible slip: the frames are stacked last first.
RECURSIVE StackRowsReversed(_, _)
StackRowsReversed(dfs, cols) ==
  IF dfs = <<>> THEN <<>>
  ELSE LET df == dfs[Len(dfs)]
       IN [i \in 1 .. Len(df.rows) |-> Reindex(df.rows[i], cols)] \o
          StackRowsReversed(SubSeq(dfs, 1, Len(dfs) - 1), cols)

ConcatReversed(dfs) ==
  [cols |-> UnionCols(dfs), rows |-> StackRowsReversed(dfs, UnionCols(dfs))]

\* pd.concat(all_cars_data, ignore_index=True): outer join of the columns,
\* the rows of the frames one after the other.
Concat(dfs) ==
  [cols |-> UnionCols(dfs), rows |-> StackRows(dfs, UnionCols(dfs))]

\* ------------------------------------------------------------ sqlite calls
\* CREATE TABLE IF NOT EXISTS all_cars (year, make, model, body_styles)
CreateIfNotExists(t) ==
  IF t.exists THEN t ELSE [exists |-> TRUE, cols |-> DeclaredCols, rows |-> <<>>]

\* Plausible slips: if_exists='append', rows added to the table that is there;
\* a write that leaves an existing table alone; a write into the declared columns.
ToSqlAppend(t, df) ==
  [exists |-> TRUE, cols |-> IF t.exists THEN t.cols ELSE df.cols, rows |-> t.rows \o df.rows]

ToSqlKeep(t, df) ==
  IF t.exists THEN t ELSE [exists |-> TRUE, cols |-> df.cols, rows |-> df.rows]

ToSqlDeclared(t, df) ==
  [exists |-> TRUE, cols |-> DeclaredCols,
   rows |-> [i \in 1 .. Len(df.rows) |-> Reindex(df.rows[i], DeclaredCols)]]

\* to_sql('all_cars', conn, if_exists='replace', index=False): the table is
\* dropped and created anew from the frame's columns and rows.
ToSqlReplace(t, df) ==
  [exists |-> TRUE, cols |-> df.cols, rows |-> df.rows]

\* ----------------------------------------------------------------- actions
\* A plausible slip: range(1992, 2026), the last year left out.
InLoopShort(y) == y < StopYear - 1

\* for year in range(1992, 2027): the loop body runs for this value.
InLoop(y) == y < StopYear

RunStart(d) ==
  /\ pc = "scan"
  /\ year = FirstYear
  /\ all_cars_data = <<>>
  /\ all_cars = EmptyFrame
  /\ conn = "none"
  /\ view = NoTable
  /\ out = <<>>
  /\ err = ""
  /\ probed = <<>>
  /\ events = <<>>
  /\ db0 = d

Init ==
  /\ \E S \in SUBSET CandidateYears :
       files \in { f \in [S -> UNION { FilesFor(y) : y \in CandidateYears }] :
                     \A y \in S : f[y] \in FilesFor(y) }
  /\ db \in OldStores
  /\ RunStart(db)
  /\ prev = "none"
  /\ run = 1

Abort(e) ==
  /\ pc' = "aborted"
  /\ err' = e

\* A plausible slip: each file is written to the table as soon as it is read.
ScanLoadWrite ==
  /\ pc = "scan" /\ InLoop(year)
  /\ Exists(year) /\ ~ParseFails(files[year])
  /\ all_cars_data' = Append(all_cars_data, SetYear(ReadCsv(files[year]), year))
  /\ db' = ToSqlAppend(db, SetYear(ReadCsv(files[year]), year))
  /\ probed' = Append(probed, year)
  /\ year' = year + 1
  /\ UNCHANGED <<files, pc, all_cars, conn, view, out, err, events, db0, prev, run>>

\* Lines 13-19: the file of this year exists and parses.
ScanLoad ==
  /\ pc = "scan" /\ InLoop(year)
  /\ Exists(year) /\ ~ParseFails(files[year])
  /\ all_cars_data' = Append(all_cars_data, SetYear(ReadCsv(files[year]), year))
  /\ probed' = Append(probed, year)
  /\ year' = year + 1
  /\ UNCHANGED <<files, db, pc, all_cars, conn, view, out, err, events, db0, prev, run>>

\* Line 17: pd.read_csv raises, nothing catches it.
ScanParseFail ==
  /\ pc = "scan" /\ InLoop(year)
  /\ Exists(year) /\ ParseFails(files[year])
  /\ probed' = Append(probed, year)
  /\ Abort("ParseFailure")
  /\ UNCHANGED <<files, db, year, all_cars_data, all_cars, conn, view, out, events, db0, prev, run>>

\* A plausible slip: a missing file ends the run.
ScanSkipAbort ==
  /\ pc = "scan" /\ InLoop(year)
  /\ ~Exists(year)
  /\ probed' = Append(probed, year)
  /\ Abort("IOFailure")
  /\ UNCHANGED <<files, db, year, all_cars_data, all_cars, conn, view, out, events, db0, prev, run>>

\* Lines 20-21: the file is missing.
ScanSkip ==
  /\ pc = "scan" /\ InLoop(year)
  /\ ~Exists(year)
  /\ out' = Append(out, <<"skip", year>>)
  /\ probed' = Append(probed, year)
  /\ year' = year + 1
  /\ UNCHANGED <<files, db, pc, all_cars_data, all_cars, conn, view, err, events, db0, prev, run>>

\* Line 13: the range is exhausted.
ScanEnd ==
  /\ pc = "scan" /\ ~InLoop(year)
  /\ pc' = "combine"
  /\ UNCHANGED <<files, db, year, all_cars_data, all_cars, conn, view, out, err,
                 probed, events, db0, prev, run>>

\* Lines 24-25.
Combine ==
  /\ pc = "combine" /\ all_cars_data # <<>>
  /\ all_cars' = Concat(all_cars_data)
  /\ pc' = "connect"
  /\ UNCHANGED <<files, db, year, all_cars_data, conn, view, out, err,
                 probed, events, db0, prev, run>>

\* A plausible slip: the emptiness check comes after the table was created.
NoDataLate ==
  /\ pc = "combine" /\ all_cars_data = <<>>
  /\ db' = CreateIfNotExists(db)
  /\ events' = <<"connect", "create">>
  /\ Abort("NoDataFound")
  /\ UNCHANGED <<files, year, all_cars_data, all_cars, conn, view, out, probed, db0, prev, run>>

\* Lines 26-27: raise FileNotFoundError.
NoData ==
  /\ pc = "combine" /\ all_cars_data = <<>>
  /\ Abort("NoDataFound")
  /\ UNCHANGED <<files, db, year, all_cars_data, all_cars, conn, view, out,
                 probed, events, db0, prev, run>>

\* Lines 30-31: sqlite3.connect.
Connect ==
  /\ pc = "connect"
  /\ conn' = "open"
  /\ view' = db
  /\ events' = Append(events, "connect")
  /\ pc' = "create"
  /\ UNCHANGED <<files, db, year, all_cars_data, all_cars, out, err, probed, db0, prev, run>>

\* Line 30: the store cannot be opened (OperationalError).
ConnectFail ==
  /\ pc = "connect"
  /\ Abort("IOFailure")
  /\ UNCHANGED <<files, db, year, all_cars_data, all_cars, conn, view, out,
                 probed, events, db0, prev, run>>

\* Lines 34-41: DDL outside a transaction is durable at once.
CreateTable ==
  /\ pc = "create"
  /\ view' = CreateIfNotExists(view)
  /\ db' = view'
  /\ events' = Append(events, "create")
  /\ pc' = "to_sql"
  /\ UNCHANGED <<files, year, all_cars_data, all_cars, conn, out, err, probed, db0, prev, run>>

\* Line 44.  Whether pandas has committed its own transaction when to_sql
\* returns is not decided by the script: both outcomes.
ToSql ==
  /\ pc = "to_sql"
  /\ view' = ToSqlReplace(view, all_cars)
  /\ db' \in {db, view'}
  /\ events' = Append(events, "write")
  /\ pc' = "commit"
  /\ UNCHANGED <<files, year, all_cars_data, all_cars, conn, out, err, probed, db0, prev, run>>

\* Line 44: the write fails (disk full, locked file); the table may already
\* have been dropped.
ToSqlFail ==
  /\ pc = "to_sql"
  /\ db' \in {db, NoTable}
  /\ Abort("IOFailure")
  /\ UNCHANGED <<files, year, all_cars_data, all_cars, conn, view, out,
                 probed, events, db0, prev, run>>

\* Line 47.
Commit ==
  /\ pc = "commit"
  /\ db' = view
  /\ events' = Append(events, "commit")
  /\ pc' = "close"
  /\ UNCHANGED <<files, year, all_cars_data, all_cars, conn, view, out, err, probed, db0, prev, run>>

\* A plausible slip: the connection is closed without a commit.
CloseEarly ==
  /\ pc = "commit"
  /\ conn' = "closed"
  /\ events' = Append(events, "close")
  /\ pc' = "print"
  /\ UNCHANGED <<files, db, year, all_cars_data, all_cars, view, out, err, probed, db0, prev, run>>

\* Line 48.
Close ==
  /\ pc = "close"
  /\ conn' = "closed"
  /\ events' = Append(events, "close")
  /\ pc' = "print"
  /\ UNCHANGED <<files, db, year, all_cars_data, all_cars, view, out, err, probed, db0, prev, run>>

\* Line 50.
PrintDone ==
  /\ pc = "print"
  /\ out' = Append(out, <<"done", 0>>)
  /\ pc' = "done"
  /\ UNCHANGED <<files, db, year, all_cars_data, all_cars, conn, view, err,
                 probed, events, db0, prev, run>>

\* The script is run again on the same directory and the same store.
Rerun ==
  /\ pc \in {"done", "aborted"}
  /\ run < MaxRuns
  /\ run' = run + 1
  /\ prev' = pc
  /\ pc' = "scan"
  /\ year' = FirstYear
  /\ all_cars_data' = <<>>
  /\ all_cars' = EmptyFrame
  /\ conn' = "none"
  /\ view' = NoTable
  /\ out' = <<>>
  /\ err' = ""
  /\ probed' = <<>>
  /\ events' = <<>>
  /\ db0' = db
  /\ UNCHANGED <<files, db>>

Next ==
  \/ ScanLoad
  \/ ScanParseFail
  \/ ScanSkip
  \/ ScanEnd
  \/ Combine
  \/ NoData
  \/ Connect
  \/ ConnectFail
  \/ CreateTable
  \/ ToSql
  \/ ToSqlFail
  \/ Commit
  \/ Close
  \/ PrintDone

\* One run of the script.
Spec == Init /\ [][Next]_vars

\* Up to MaxRuns runs, one after the other.
NextRerun ==
  \/ Next
  \/ Rerun

SpecRerun == Init /\ [][NextRerun]_vars

\* ---------------------------------------------------------------- claims
\* What the claims speak of, taken from the directory and the console alone.
ClaimYears == 1992 .. 2026

NumYears == Cardinality(ClaimYears)

Present == DOMAIN files \cap ClaimYears

Absent == ClaimYears \ Present

RECURSIVE SumLines(_)
SumLines(S) ==
  IF S = {} THEN 0
  ELSE LET z == CHOOSE z \in S : TRUE
       IN Len(files[z].lines) + SumLines(S \ {z})

TotalRows == SumLines(Present)

\* Position before the first row of <y>.csv in the concatenation by ascending year.
RowsBefore(y) == SumLines({ z \in Present : z < y })

SkipCount(y) == Cardinality({ i \in 1 .. Len(out) : out[i] = <<"skip", y>> })

NumSkips == Cardinality({ i \in 1 .. Len(out) : out[i][1] = "skip" })

NumDone == Cardinality({ i \in 1 .. Len(out) : out[i][1] = "done" })

FullOrder == <<"connect", "create", "write", "commit", "close">>

ScanComplete == pc # "scan" /\ err # "ParseFailure"

\* C1: after a successful run every row of all_cars has the year of the name
\* of the file it was read from, whatever year cell the file held and whether
\* or not it had a year column.
C1_YearFromFileName ==
  pc = "done" =>
    /\ Len(db.rows) = TotalRows
    /\ \A y \in Present : \A k \in 1 .. Len(files[y].lines) :
         LET r == db.rows[RowsBefore(y) + k]
         IN "year" \in DOMAIN r /\ r["year"] = y

C1_Witness ==
  /\ pc = "done"
  /\ 2020 \in Present
  /\ files[2020].header[1] = "year" /\ files[2020].lines[1][1] = 1999
  /\ \E y \in Present : "year" \notin Range(files[y].header) /\ files[y].lines # <<>>

\* C2: after a successful run the table holds exactly the rows of the present
\* files: as many rows as the files have lines, file after file by ascending
\* year, the lines of a file in their order, each cell under its column.
C2_TableIsConcatenation ==
  pc = "done" =>
    /\ db.exists
    /\ Len(db.rows) = TotalRows
    /\ \A y \in Present : \A k \in 1 .. Len(files[y].lines) :
         LET r == db.rows[RowsBefore(y) + k]
             h == files[y].header
         IN \A j \in 1 .. Len(h) :
              h[j] # "year" => h[j] \in DOMAIN r /\ r[h[j]] = files[y].lines[k][j]

C2_Witness ==
  /\ pc = "done"
  /\ {1992, 2026} \subseteq Present
  /\ Len(files[1992].lines) = 2 /\ files[1992].lines[1] = files[1992].lines[2]
  /\ Len(files[2026].lines) = 2 /\ files[2026].lines[1] # files[2026].lines[2]
  /\ Len(db.rows) = 4

\* C3: with no file for any year of the range the run ends with NoDataFound
\* after the whole scan, and the store is as before the run: never opened, no
\* table created, dropped or overwritten, no completion notice.
C3_NoDataLeavesStore ==
  /\ (Present = {} /\ pc # "scan") =>
       /\ pc \in {"combine", "aborted"}
       /\ pc = "aborted" => err = "NoDataFound"
  /\ Present = {} =>
       /\ db = db0
       /\ events = <<>>
       /\ conn = "none"
       /\ NumDone = 0
  /\ err = "NoDataFound" => Present = {} /\ Len(probed) = NumYears

C3_Witness ==
  /\ pc = "aborted" /\ err = "NoDataFound"
  /\ db0.exists /\ db0.rows # <<>>
  /\ DOMAIN files = {}

\* C4: a second run on the same directory and store leaves all_cars as the
\* first run left it: the table is replaced, rows are not added.
C4_Idempotent ==
  (run > 1 /\ prev = "done" /\ pc = "done") => db = db0

C4_Witness ==
  /\ run = 2 /\ prev = "done" /\ pc = "done"
  /\ Len(db.rows) >= 2

C6_ReplaceWholesale ==
  pc = "done" =>
    /\ db.exists
    /\ db.cols = all_cars.cols
    /\ db.rows = all_cars.rows
    /\ run = 1 => \A i \in 1 .. Len(db0.rows) : db0.rows[i] \notin Range(db.rows)

C6_Witness ==
  /\ pc = "done" /\ run = 1
  /\ db0.exists /\ db0.rows # <<>>
  /\ db0.cols # db.cols
  /\ db.rows # <<>>

\* C7: when a present file fails to parse the run ends at that file with the
\* store as before the run; the store is opened only after the loop has gone
\* through all years, so files read earlier are never written.
C7_ParseFailureLeavesStore ==
  /\ err = "ParseFailure" =>
       /\ pc = "aborted"
       /\ year \in Present /\ files[year] \in {EmptyFile, RaggedFile}
       /\ probed # <<>> /\ probed[Len(probed)] = year
  /\ (\E y \in Present : files[y] \in {EmptyFile, RaggedFile}) =>
       /\ db = db0
       /\ events = <<>>
       /\ conn = "none"
       /\ pc \in {"scan", "aborted"}
       /\ pc = "aborted" => err = "ParseFailure"
  /\ events # <<>> => Len(probed) = NumYears

C7_Witness ==
  /\ pc = "aborted" /\ err = "ParseFailure"
  /\ all_cars_data # <<>> /\ all_cars_data[1].rows # <<>>
  /\ db0.exists

C9_StepOrder ==
  /\ Len(events) <= Len(FullOrder)
  /\ events = SubSeq(FullOrder, 1, Len(events))
  /\ events # <<>> => Len(probed) = NumYears /\ all_cars_data # <<>>
  /\ conn = "open" <=> (events # <<>> /\ events[Len(events)] # "close")
  /\ NumDone <= 1
  /\ NumDone = 1 <=> pc = "done"
  /\ pc = "done" => events = FullOrder /\ conn = "closed" /\ out[Len(out)] = <<"done", 0>>
  /\ pc = "aborted" => NumDone = 0

C9_Witness ==
  /\ pc = "done"
  /\ events = FullOrder
  /\ NumSkips = NumYears - 1

\* C10: the declared columns do not constrain the table: after a successful
\* run its columns are those of the parsed files plus year, each once; a row
\* of a file that lacks a column holds a null there; files without make,
\* model or body_styles give a table without that column.
C10_SchemaFromFiles ==
  pc = "done" =>
    /\ Range(db.cols) = {"year"} \cup UNION { Range(files[y].header) : y \in Present }
    /\ Len(db.cols) = Cardinality(Range(db.cols))
    /\ Len(db.rows) = TotalRows
    /\ \A y \in Present : \A k \in 1 .. Len(files[y].lines) :
         LET r == db.rows[RowsBefore(y) + k]
         IN /\ DOMAIN r = Range(db.cols)
            /\ \A c \in Range(db.cols) \ (Range(files[y].header) \cup {"year"}) : r[c] = Null

C10_Witness ==
  /\ pc = "done"
  /\ "trim" \in Range(db.cols)
  /\ \E i \in 1 .. Len(db.rows) : db.rows[i]["trim"] = Null
  /\ \E i \in 1 .. Len(db.rows) : db.rows[i]["trim"] # Null

C10_WitnessLacking ==
  /\ pc = "done"
  /\ "body_styles" \notin Range(db.cols)
  /\ db.rows # <<>>

====
